---------------------------- MODULE Spec2Model ----------------------------
(* A model of the incremental retrieval pipeline of youtube-rag-system:    *)
(* the VectorStore (index + Index Metadata), the URLManager (ingestion     *)
(* ledger) and the entry points that drive them (CLI runs of main.py and   *)
(* the FastAPI server).                                                    *)
(*                                                                         *)
(* Storage shared by all processes: the transcript files, the persisted    *)
(* index (index.faiss + index.pkl), metadata.json and the ledger file.     *)
(* Two processes hold in-memory copies: "cli" (a run of                    *)
(* `python main.py URL...`) and "api" (the server started by --server).    *)
(*                                                                         *)
(* A transcript text is abstracted to a natural number t: 0 is a text      *)
(* that is empty after strip(), t > 0 is a text the splitter cuts into t   *)
(* chunks.  Two texts are equal iff their numbers are equal.  Text 0 also   *)
(* stands for transcript_data on which building the documents raises (a    *)
(* missing field, a duration of None): like a blank text it makes          *)
(* add_transcript return False after the idempotence check and before any  *)
(* change.  Kind "corrupt" is a file json.load cannot parse or a record    *)
(* without 'video_id'.                                                     *)
(* Descriptive fields (title, uploader, created_at, ...) are not modelled. *)
EXTENDS Integers, Sequences, FiniteSets, TLC

\* ---------------------------------------------------------------- bounds
MaxTime == 4      \* the clock runs over 0..MaxTime
MaxTick == 2      \* how far Tick alone moves the clock
MaxText == 2      \* texts are 0..MaxText (chunks per text)
MaxDocs == 4      \* an index holds at most MaxDocs documents
MaxFaults == 1    \* collaborator failures in one behaviour of the system

Videos == {"v1", "v2"}
Urls   == {"u1", "u1b", "u2"}
Procs  == {"cli", "api"}

\* extract_video_id: two URL strings may name the same video
extract_video_id(url) == IF url = "u2" THEN "v2" ELSE "v1"

VARIABLES
    now,             \* the wall clock (datetime.now(), file mtimes)
    files,           \* transcripts dir: video_id -> file, or NoFile
    diskIndex,       \* index.faiss/index.pkl: sequence of documents, <<>> = absent
    diskMeta,        \* metadata.json as last written
    diskLedger,      \* processed_urls file as last written
    vectorstore,     \* per process: VectorStore.vectorstore (<<>> = None)
    metadata,        \* per process: VectorStore.metadata
    processed_urls,  \* per process: URLManager.processed_urls
    persisted,       \* history: video_ids whose documents were ever written to the index
    faults,          \* collaborator failures so far
    last             \* the last operation and what it returned

vars == <<now, files, diskIndex, diskMeta, diskLedger, vectorstore, metadata,
          processed_urls, persisted, faults, last>>

\* ------------------------------------------------------------- helpers
Range(s) == {s[i] : i \in DOMAIN s}

NoFile == [kind |-> "none", text |-> 0, mtime |-> 0]
None == <<>>

RECURSIVE SumDocumentCount(_)
SumDocumentCount(videos) ==
    IF DOMAIN videos = {} THEN 0
    ELSE LET v == CHOOSE x \in DOMAIN videos : TRUE
         IN videos[v].document_count
            + SumDocumentCount([w \in DOMAIN videos \ {v} |-> videos[w]])

\* all orders in which glob() may list a set of files
Orders(S) == {s \in [1..Cardinality(S) -> S] : Range(s) = S}

\* the metadata of _load_metadata when metadata.json is absent, and of the
\* reset in rebuild_from_transcripts
EmptyMetadata == [videos |-> <<>>, document_count |-> 0, video_count |-> 0]

IsBlank_never(data) == FALSE

\* _combine_transcript_text + strip(): is there any text to index
IsBlank(data) == data.text = 0

create_documents_from_one(data) ==
    [i \in 1..data.text |->
        [video_id |-> data.video_id, chunk_id |-> i,
         total_chunks |-> data.text, content |-> data.text]]

\* _create_documents: one document per chunk of the text, chunk_id 0-based
create_documents(data) ==
    [i \in 1..data.text |->
        [video_id |-> data.video_id, chunk_id |-> i - 1,
         total_chunks |-> data.text, content |-> data.text]]

\* json.load of a transcript file: the transcript_data it holds
FileData(v) == [video_id |-> v, kind |-> files[v].kind, text |-> files[v].text]

\* ------------------------------------------------------------ VectorStore
\* A VectorStore call works on a world w: the instance's index (vs) and
\* metadata (md), the persisted index and metadata (dIdx, dMeta), the history
\* of persisted videos (per), and the outcome of the call: ret, already (the
\* idempotent skip was taken), inserted (documents were put into the index).
World(p) == [vs |-> vectorstore[p], md |-> metadata[p], dIdx |-> diskIndex,
             dMeta |-> diskMeta, per |-> persisted,
             ret |-> FALSE, already |-> FALSE, inserted |-> FALSE]

\* VectorStore.__init__: no index in memory, metadata read from metadata.json
NewVectorStore == [vs |-> None, md |-> diskMeta, dIdx |-> diskIndex,
                   dMeta |-> diskMeta, per |-> persisted,
                   ret |-> FALSE, already |-> FALSE, inserted |-> FALSE]

load_once(w) == IF w.vs # None THEN [w EXCEPT !.ret = TRUE]
                ELSE IF w.dIdx # None THEN [w EXCEPT !.vs = w.dIdx, !.ret = TRUE]
                ELSE [w EXCEPT !.ret = FALSE]

\* load(): read the persisted index if both files exist
load(w) == IF w.dIdx # None THEN [w EXCEPT !.vs = w.dIdx, !.ret = TRUE]
           ELSE [w EXCEPT !.ret = FALSE]

AlreadyAdded_never(md, video_id) == FALSE

\* the check of line 150
AlreadyAdded(md, video_id) == video_id \in DOMAIN md.videos

\* FAISS.from_documents on no index, add_documents on an existing one
insert(vs, documents) == IF vs = None THEN documents ELSE vs \o documents

save_vectorstore_merge(w, saveOk) ==
    IF saveOk /\ w.vs # None
    THEN [w EXCEPT !.dIdx = SelectSeq(w.dIdx, LAMBDA d : d \notin Range(w.vs)) \o w.vs,
                   !.per = w.per \cup {d.video_id : d \in Range(w.vs)}]
    ELSE w

\* _save_vectorstore: write the in-memory index; a failed write is logged only
save_vectorstore(w, saveOk) ==
    IF saveOk /\ w.vs # None
    THEN [w EXCEPT !.dIdx = w.vs,
                   !.per = w.per \cup {d.video_id : d \in Range(w.vs)}]
    ELSE w

update_metadata_assign(md, video_id, n) ==
    LET videos == [v \in DOMAIN md.videos \cup {video_id} |->
                      IF v = video_id THEN [document_count |-> n]
                      ELSE md.videos[v]]
    IN [videos |-> videos,
        document_count |-> n,
        video_count |-> Cardinality(DOMAIN videos)]

\* lines 182-192: the metadata after a video with n documents was added
update_metadata(md, video_id, n) ==
    LET videos == [v \in DOMAIN md.videos \cup {video_id} |->
                      IF v = video_id THEN [document_count |-> n]
                      ELSE md.videos[v]]
    IN [videos |-> videos,
        document_count |-> md.document_count + n,
        video_count |-> Cardinality(DOMAIN videos)]

\* _save_metadata: a failed write is logged only
save_metadata(w, metaOk) == IF metaOk THEN [w EXCEPT !.dMeta = w.md] ELSE w

\* add_transcript(transcript_data).  embedOk: the embedding / index call
\* succeeds; saveOk, metaOk: the writes of the index and of metadata.json do.
add_transcript(w0, data, embedOk, saveOk, metaOk) ==
    LET w == [w0 EXCEPT !.ret = FALSE, !.already = FALSE, !.inserted = FALSE]
    IN
    IF data.kind = "corrupt" THEN w                       \* no 'video_id': KeyError
    ELSE IF AlreadyAdded(w.md, data.video_id)
    THEN [w EXCEPT !.ret = TRUE, !.already = TRUE]
    ELSE IF IsBlank(data) THEN w                          \* nothing to index
    ELSE IF ~embedOk THEN w                               \* except: return False
    ELSE LET documents == create_documents(data)
             w1 == [w EXCEPT !.vs = insert(w.vs, documents), !.inserted = TRUE]
             w2 == save_vectorstore(w1, saveOk)
             w3 == [w2 EXCEPT !.md = update_metadata(w2.md, data.video_id,
                                                     Len(documents))]
             w4 == save_metadata(w3, metaOk)
         IN [w4 EXCEPT !.ret = TRUE]

\* update_from_file(file_path): both branches call add_transcript
update_from_file(w, data, embedOk, saveOk, metaOk) ==
    IF data.kind = "corrupt" THEN [w EXCEPT !.ret = FALSE, !.already = FALSE,
                                            !.inserted = FALSE]
    ELSE add_transcript(w, data, embedOk, saveOk, metaOk)

reset_index_only(w) == [w EXCEPT !.vs = None]

\* lines 409-416 of rebuild_from_transcripts: drop the index and the metadata
reset(w) == [w EXCEPT !.vs = None, !.md = EmptyMetadata]

rebuild_result_always(success_count) == success_count >= 0

\* line 436
rebuild_result(success_count) == success_count > 0

\* the loop of rebuild_from_transcripts over the files in glob order; a file
\* json.load cannot parse is skipped.  done: the video_ids ingested so far.
RECURSIVE rebuild_loop(_, _, _, _, _, _)
rebuild_loop(w, order, done, embedFail, saveFail, metaFail) ==
    IF order = <<>> THEN [w |-> w, done |-> done]
    ELSE LET v == Head(order)
             data == FileData(v)
             w1 == IF data.kind = "corrupt" THEN [w EXCEPT !.ret = FALSE]
                   ELSE add_transcript(w, data, v \notin embedFail,
                                       v \notin saveFail, v \notin metaFail)
         IN rebuild_loop(w1, Tail(order),
                         IF w1.ret /\ data.kind # "corrupt" THEN done \cup {v} ELSE done,
                         embedFail, saveFail, metaFail)

\* rebuild_from_transcripts(transcripts_dir)
rebuild_from_transcripts(w, order, embedFail, saveFail, metaFail) ==
    LET r == rebuild_loop(reset(w), order, {}, embedFail, saveFail, metaFail)
    IN [w |-> [r.w EXCEPT !.ret = rebuild_result(Cardinality(r.done))],
        done |-> r.done]

\* remove_video(video_id): nothing is removed, the answer is False
remove_video(w, video_id) ==
    [w EXCEPT !.ret = FALSE, !.already = FALSE, !.inserted = FALSE]

\* ------------------------------------------------------------- URLManager
new_entry_added(video_data, t) ==
    [video_id |-> video_data.video_id, vectorstore_added |-> TRUE,
     last_modified |-> t]

\* the entry mark_processed writes (lines 84-92)
new_entry(video_data, t) ==
    [video_id |-> video_data.video_id, vectorstore_added |-> FALSE,
     last_modified |-> t]

is_processed_never(pu, url) == FALSE

\* is_processed(url)
is_processed(pu, url) == url \in DOMAIN pu

mark_processed_one_per_video(pu, url, video_data, t) ==
    [u \in {x \in DOMAIN pu : pu[x].video_id # video_data.video_id} \cup {url} |->
        IF u = url THEN new_entry(video_data, t) ELSE pu[u]]

mark_processed_only(pu, url, video_data, t) ==
    [u \in {url} |-> new_entry(video_data, t)]

\* mark_processed(url, video_data): create or overwrite the entry
mark_processed(pu, url, video_data, t) ==
    [u \in DOMAIN pu \cup {url} |->
        IF u = url THEN new_entry(video_data, t) ELSE pu[u]]

mark_vectorstore_added_no_stamp(pu, url, t) ==
    IF url \in DOMAIN pu
    THEN [pu EXCEPT ![url].vectorstore_added = TRUE]
    ELSE pu

\* mark_vectorstore_added(url): only for an existing entry
mark_vectorstore_added(pu, url, t) ==
    IF url \in DOMAIN pu
    THEN [pu EXCEPT ![url].vectorstore_added = TRUE, ![url].last_modified = t]
    ELSE pu

remove_processed_url_of_video(pu, url) ==
    [u \in {x \in DOMAIN pu : url \notin DOMAIN pu \/ pu[x].video_id # pu[url].video_id} |->
        pu[u]]

\* remove_processed_url(url)
remove_processed_url(pu, url) == [u \in DOMAIN pu \ {url} |-> pu[u]]

\* get_unprocessed_for_vectorstore()
get_unprocessed_for_vectorstore(pu) ==
    {u \in DOMAIN pu : ~pu[u].vectorstore_added}

IsNewer_or_equal(file_modified_time, last_modified) ==
    file_modified_time >= last_modified

\* the comparison of line 184
IsNewer(file_modified_time, last_modified) == file_modified_time > last_modified

\* find_updated_transcripts(): the ledger entries whose transcript file
\* (<video_id>.json) exists and is newer than the entry's last_modified; the
\* list returned holds the file of each of them
find_updated_transcripts(pu) ==
    {u \in DOMAIN pu :
        /\ files[pu[u].video_id] # NoFile
        /\ IsNewer(files[pu[u].video_id].mtime, pu[u].last_modified)}

updated_files(pu) == {pu[u].video_id : u \in find_updated_transcripts(pu)}

\* update_file_timestamp(video_id), for the entry u the scan finds first
update_file_timestamp(pu, u, t) == [pu EXCEPT ![u].last_modified = t]

save_processed_urls_never(pu, ledgerOk) == diskLedger

\* _save_processed_urls: a failed write is logged only
save_processed_urls(pu, ledgerOk) == IF ledgerOk THEN pu ELSE diskLedger

\* ------------------------------------------------------------------ state
\* `last` records the last operation: op, its arguments (proc, url), what it
\* returned (ret), whether it put documents into the index (inserted), and
\*   known       the video_id passed to add_transcript was a key of
\*               metadata.videos when the call began
\*   before      the keys of metadata.videos when a rebuild began
\*   order       the order in which a rebuild read the files
\*   embedFailed the files whose embedding call failed during a rebuild
\*   writeOk     no write to storage failed during the operation
\*   fetched     download_transcript returned transcript data for the url
NoLast == [op |-> "init", proc |-> "", url |-> "", ret |-> FALSE,
           known |-> FALSE, inserted |-> FALSE, writeOk |-> TRUE, fetched |-> FALSE,
           flagged |-> {}, before |-> {}, order |-> <<>>, embedFailed |-> {}]

Init ==
    /\ now = 0
    /\ files = [v \in Videos |-> NoFile]
    /\ diskIndex = None
    /\ diskMeta = EmptyMetadata
    /\ diskLedger = <<>>
    /\ vectorstore = [p \in Procs |-> None]
    /\ metadata = [p \in Procs |-> EmptyMetadata]
    /\ processed_urls = [p \in Procs |-> <<>>]
    /\ persisted = {}
    /\ faults = 0
    /\ last = NoLast

\* what a VectorStore call leaves in storage; the model stops following an
\* index that outgrows MaxDocs
CommitDisk(w) ==
    /\ Len(w.vs) <= MaxDocs
    /\ diskIndex' = w.dIdx
    /\ diskMeta' = w.dMeta
    /\ persisted' = w.per

\* what a VectorStore call of process p leaves behind
Commit(p, w) ==
    /\ CommitDisk(w)
    /\ vectorstore' = [vectorstore EXCEPT ![p] = w.vs]
    /\ metadata' = [metadata EXCEPT ![p] = w.md]

\* the transcript_data the Transcript Source supplies for a url: a text of
\* one chunk, or nothing that can be indexed
Downloads(url) ==
    {[video_id |-> extract_video_id(url), kind |-> "text", text |-> t] : t \in {0, 1}}

\* the contents a transcript file can be given by hand
Contents ==
    {[kind |-> "text", text |-> t] : t \in 0..MaxText}
    \cup {[kind |-> "corrupt", text |-> 0]}

\* time passes
Tick ==
    /\ now < MaxTick
    /\ now' = now + 1
    /\ last' = [NoLast EXCEPT !.op = "tick"]
    /\ UNCHANGED <<files, diskIndex, diskMeta, diskLedger, vectorstore, metadata,
                   processed_urls, persisted, faults>>

\* a transcript file is written or modified by hand
WriteFile(v, c) ==
    /\ files' = [files EXCEPT ![v] = [kind |-> c.kind, text |-> c.text, mtime |-> now]]
    /\ last' = [NoLast EXCEPT !.op = "write_file"]
    /\ UNCHANGED <<now, diskIndex, diskMeta, diskLedger, vectorstore, metadata,
                   processed_urls, persisted, faults>>

\* ------------------------------------------- calls on one VectorStore
\* the VectorStore the direct calls below are made on
Unit == "cli"

\* any transcript_data a caller may pass
AllData == {[video_id |-> v, kind |-> c.kind, text |-> c.text] :
               v \in Videos, c \in Contents}

ExistingFiles == {v \in Videos : files[v] # NoFile}

\* what the collaborators do during one call: all succeed, or the embedding
\* call, the write of the index or the write of metadata.json fails
Envs == {"ok", "embed_fails", "index_write_fails", "metadata_write_fails"}
embedOk(env) == env # "embed_fails"
saveOk(env) == env # "index_write_fails"
metaOk(env) == env # "metadata_write_fails"

\* during a rebuild: which file's ingestion meets the failure
RebuildEnvs(S) == {[env |-> "ok", at |-> {}]}
                  \cup {[env |-> e, at |-> {v}] : e \in Envs \ {"ok"}, v \in S}
FailAt(renv, e) == IF renv.env = e THEN renv.at ELSE {}

VsAddTranscript(data, env) ==
    LET w == add_transcript(World(Unit), data, embedOk(env), saveOk(env), metaOk(env))
    IN /\ Commit(Unit, w)
       /\ last' = [NoLast EXCEPT !.op = "add_transcript", !.ret = w.ret,
                                 !.inserted = w.inserted,
                                 !.known = /\ data.kind # "corrupt"
                                           /\ data.video_id \in DOMAIN metadata[Unit].videos,
                                 !.writeOk = ~(w.inserted /\ ~(saveOk(env) /\ metaOk(env)))]
       /\ UNCHANGED <<now, files, diskLedger, processed_urls, faults>>

VsRebuild(order, renv) ==
    LET r == rebuild_from_transcripts(World(Unit), order,
                 FailAt(renv, "embed_fails"), FailAt(renv, "index_write_fails"),
                 FailAt(renv, "metadata_write_fails"))
    IN /\ Commit(Unit, r.w)
       /\ last' = [NoLast EXCEPT !.op = "rebuild_from_transcripts",
                                 !.ret = r.w.ret, !.order = order,
                                 !.before = DOMAIN metadata[Unit].videos,
                                 !.embedFailed = FailAt(renv, "embed_fails"),
                                 !.writeOk = (renv.env \in {"ok", "embed_fails"})]
       /\ UNCHANGED <<now, files, diskLedger, processed_urls, faults>>

NextVectorStore ==
    \/ \E d \in AllData, env \in Envs : VsAddTranscript(d, env)
    \/ \E o \in Orders(ExistingFiles), renv \in RebuildEnvs(ExistingFiles) :
          VsRebuild(o, renv)
    \/ \E v \in Videos, c \in Contents : WriteFile(v, c)

SpecVectorStore == Init /\ [][NextVectorStore]_vars

\* -------------------------------------------- calls on one URLManager
\* Every write of the ledger file succeeds here; the clock moves by Tick, so
\* that two operations may read the same time.
UmMarkProcessed(url, d) ==
    LET pu == mark_processed(processed_urls[Unit], url, d, now)
    IN /\ processed_urls' = [processed_urls EXCEPT ![Unit] = pu]
       /\ diskLedger' = save_processed_urls(pu, TRUE)
       /\ last' = [NoLast EXCEPT !.op = "mark_processed", !.url = url]
       /\ UNCHANGED <<now, files, diskIndex, diskMeta, vectorstore, metadata, persisted,
                     faults>>

UmMarkVectorstoreAdded(url) ==
    LET pu == mark_vectorstore_added(processed_urls[Unit], url, now)
    IN /\ processed_urls' = [processed_urls EXCEPT ![Unit] = pu]
       /\ diskLedger' = IF is_processed(processed_urls[Unit], url)
                        THEN save_processed_urls(pu, TRUE) ELSE diskLedger
       /\ last' = [NoLast EXCEPT !.op = "mark_vectorstore_added", !.url = url]
       /\ UNCHANGED <<now, files, diskIndex, diskMeta, vectorstore, metadata, persisted,
                     faults>>

UmRemoveProcessedUrl(url) ==
    LET pu == remove_processed_url(processed_urls[Unit], url)
    IN /\ processed_urls' = [processed_urls EXCEPT ![Unit] = pu]
       /\ diskLedger' = IF is_processed(processed_urls[Unit], url)
                        THEN save_processed_urls(pu, TRUE) ELSE diskLedger
       /\ last' = [NoLast EXCEPT !.op = "remove_processed_url", !.url = url]
       /\ UNCHANGED <<now, files, diskIndex, diskMeta, vectorstore, metadata, persisted,
                     faults>>

\* update_file_timestamp(video_id): u is the entry of that video the scan
\* meets first
UmUpdateFileTimestamp(u) ==
    /\ is_processed(processed_urls[Unit], u)
    /\ LET pu == update_file_timestamp(processed_urls[Unit], u, now)
       IN /\ processed_urls' = [processed_urls EXCEPT ![Unit] = pu]
          /\ diskLedger' = save_processed_urls(pu, TRUE)
    /\ last' = [NoLast EXCEPT !.op = "update_file_timestamp", !.url = u]
    /\ UNCHANGED <<now, files, diskIndex, diskMeta, vectorstore, metadata, persisted,
                     faults>>

UmFindUpdatedTranscripts ==
    /\ last' = [NoLast EXCEPT !.op = "find_updated_transcripts",
                              !.flagged = find_updated_transcripts(processed_urls[Unit])]
    /\ UNCHANGED <<now, files, diskIndex, diskMeta, diskLedger, vectorstore,
                   metadata, processed_urls, persisted, faults>>

\* the transcript_data of a url whose text is one chunk long
OneChunk(url) == [video_id |-> extract_video_id(url), kind |-> "text", text |-> 1]

NextURLManager ==
    \/ \E u \in Urls : UmMarkProcessed(u, OneChunk(u))
    \/ \E u \in Urls : UmMarkVectorstoreAdded(u)
    \/ \E u \in Urls : UmRemoveProcessedUrl(u)
    \/ \E u \in Urls : UmUpdateFileTimestamp(u)
    \/ UmFindUpdatedTranscripts
    \/ \E v \in Videos : WriteFile(v, [kind |-> "text", text |-> 1])
    \/ Tick

SpecURLManager == Init /\ [][NextURLManager]_vars

\* ------------------------------------------------- the entry points
\* The system: CLI runs of main.py and the API server, on one storage
\* directory.  Every operation takes time: the clock moves by one with each.
Advance == now < MaxTime /\ now' = now + 1

\* a collaborator may fail while fewer than MaxFaults failures have happened
Fault(env) ==
    /\ env # "ok" => faults < MaxFaults
    /\ faults' = IF env = "ok" THEN faults ELSE faults + 1

\* what can happen to the collaborators while one url is processed
PipelineEnvs == Envs \cup {"download_fails", "ledger_write_fails"}
ledgerOk(env) == env # "ledger_write_fails"

\* YouTubeRAGSystem.__init__ for `python main.py URL...`: a VectorStore that
\* is not loaded, and the ledger read from its file
CliStart ==
    /\ Advance
    /\ vectorstore' = [vectorstore EXCEPT !["cli"] = None]
    /\ metadata' = [metadata EXCEPT !["cli"] = diskMeta]
    /\ processed_urls' = [processed_urls EXCEPT !["cli"] = diskLedger]
    /\ last' = [NoLast EXCEPT !.op = "cli_start", !.proc = "cli"]
    /\ UNCHANGED <<files, diskIndex, diskMeta, diskLedger, persisted, faults>>

\* create_app + startup_event: app.state.vector_store is loaded from storage
ApiStart ==
    /\ Advance
    /\ LET w == load(NewVectorStore)
       IN /\ vectorstore' = [vectorstore EXCEPT !["api"] = w.vs]
          /\ metadata' = [metadata EXCEPT !["api"] = w.md]
          /\ last' = [NoLast EXCEPT !.op = "api_start", !.proc = "api", !.ret = w.ret]
    /\ processed_urls' = [processed_urls EXCEPT !["api"] = diskLedger]
    /\ UNCHANGED <<files, diskIndex, diskMeta, diskLedger, persisted, faults>>

SaveTranscript_after_stamp(d) ==
    [files EXCEPT ![d.video_id] = [kind |-> d.kind, text |-> d.text, mtime |-> now + 1]]

\* download_transcript(url) returned d: _save_transcript_to_file wrote it
SaveTranscript(d) ==
    [files EXCEPT ![d.video_id] = [kind |-> d.kind, text |-> d.text, mtime |-> now]]

\* one turn of the loop of an ingestion entry point of process p on url;
\* markAdded: the entry point calls mark_vectorstore_added after
\* mark_processed
ProcessVideo(op, p, url, d, env, markAdded) ==
    /\ Advance
    /\ Fault(env)
    /\ IF is_processed(processed_urls[p], url)
       THEN /\ env = "ok"                     \* skipped: no collaborator is called
            /\ last' = [NoLast EXCEPT !.op = op, !.proc = p, !.url = url]
            /\ UNCHANGED <<files, diskIndex, diskMeta, diskLedger, vectorstore,
                           metadata, processed_urls, persisted>>
       ELSE IF env = "download_fails"         \* download_transcript returned None
       THEN /\ last' = [NoLast EXCEPT !.op = op, !.proc = p, !.url = url]
            /\ UNCHANGED <<files, diskIndex, diskMeta, diskLedger, vectorstore,
                           metadata, processed_urls, persisted>>
       ELSE LET w == add_transcript(World(p), d, embedOk(env), saveOk(env), metaOk(env))
                pu1 == mark_processed(processed_urls[p], url, d, now)
                pu2 == IF markAdded THEN mark_vectorstore_added(pu1, url, now) ELSE pu1
            IN /\ files' = SaveTranscript(d)
               /\ Commit(p, w)
               /\ processed_urls' = [processed_urls EXCEPT ![p] = IF w.ret THEN pu2
                                                                 ELSE @]
               /\ diskLedger' = IF w.ret THEN save_processed_urls(pu2, ledgerOk(env))
                                ELSE diskLedger
               /\ last' = [NoLast EXCEPT !.op = op, !.proc = p, !.url = url,
                                         !.ret = w.ret, !.fetched = TRUE]

\* YouTubeRAGSystem.process_videos (CLI)
CliProcessVideos(url, d, env) ==
    ProcessVideo("process_videos", "cli", url, d, env, FALSE)

\* process_videos_task (POST /videos/add)
ApiProcessVideosTask(url, d, env) ==
    ProcessVideo("process_videos", "api", url, d, env, TRUE)

\* process_videos_sync (POST /videos/add-sync)
ApiProcessVideosSync(url, d, env) ==
    ProcessVideo("process_videos", "api", url, d, env, TRUE)

\* the loop of rebuild_vectorstore over the updated files
RECURSIVE update_loop(_, _, _)
update_loop(w, order, renv) ==
    IF order = <<>> THEN w
    ELSE LET v == Head(order)
         IN update_loop(update_from_file(w, FileData(v),
                                         v \notin FailAt(renv, "embed_fails"),
                                         v \notin FailAt(renv, "index_write_fails"),
                                         v \notin FailAt(renv, "metadata_write_fails")),
                        Tail(order), renv)

\* `python main.py --rebuild`: a new process (VectorStore not loaded, ledger
\* read from its file) runs rebuild_vectorstore and ends
CliRebuildVectorstore(order, renv) ==
    /\ Advance
    /\ Fault(renv.env)
    /\ Range(order) = updated_files(diskLedger)
    /\ LET w == update_loop(NewVectorStore, order, renv)
       IN /\ CommitDisk(w)
          /\ last' = [NoLast EXCEPT !.op = "rebuild_vectorstore", !.proc = "cli",
                                    !.flagged = find_updated_transcripts(diskLedger),
                                    !.ret = w.ret,
                                    !.embedFailed = FailAt(renv, "embed_fails"),
                                    !.writeOk = (renv.env \in {"ok", "embed_fails"})]
    /\ UNCHANGED <<files, diskLedger, vectorstore, metadata, processed_urls>>

\* rebuild_task (POST /rebuild)
ApiRebuildTask(order, renv) ==
    /\ Advance
    /\ Fault(renv.env)
    /\ LET r == rebuild_from_transcripts(World("api"), order,
                    FailAt(renv, "embed_fails"), FailAt(renv, "index_write_fails"),
                    FailAt(renv, "metadata_write_fails"))
       IN /\ Commit("api", r.w)
          /\ last' = [NoLast EXCEPT !.op = "rebuild_task", !.proc = "api",
                                    !.ret = r.w.ret, !.order = order,
                                    !.before = DOMAIN metadata["api"].videos,
                                    !.embedFailed = FailAt(renv, "embed_fails"),
                                    !.writeOk = (renv.env \in {"ok", "embed_fails"})]
    /\ UNCHANGED <<files, diskLedger, processed_urls>>

\* delete_video (DELETE /videos/{video_id}): u is the entry
\* get_video_data_by_id finds; the transcript file and the entry are removed
ApiDeleteVideo(u, env) ==
    /\ Advance
    /\ Fault(env)
    /\ is_processed(processed_urls["api"], u)
    /\ LET pu == remove_processed_url(processed_urls["api"], u)
       IN /\ processed_urls' = [processed_urls EXCEPT !["api"] = pu]
          /\ diskLedger' = save_processed_urls(pu, ledgerOk(env))
    /\ files' = [files EXCEPT ![processed_urls["api"][u].video_id] = NoFile]
    /\ last' = [NoLast EXCEPT !.op = "delete_video", !.proc = "api", !.url = u,
                              !.writeOk = ledgerOk(env)]
    /\ UNCHANGED <<diskIndex, diskMeta, vectorstore, metadata, persisted>>

\* VectorStore.remove_video(video_id) on the server's VectorStore
ApiRemoveVideo(v) ==
    /\ Advance
    /\ LET w == remove_video(World("api"), v)
       IN /\ Commit("api", w)
          /\ last' = [NoLast EXCEPT !.op = "remove_video", !.proc = "api",
                                    !.ret = w.ret]
    /\ UNCHANGED <<files, diskLedger, processed_urls, faults>>

\* a transcript file is edited by hand
EditFile(v, c) ==
    /\ Advance
    /\ files[v] # NoFile
    /\ files' = [files EXCEPT ![v] = [kind |-> c.kind, text |-> c.text, mtime |-> now']]
    /\ last' = [NoLast EXCEPT !.op = "edit_file"]
    /\ UNCHANGED <<diskIndex, diskMeta, diskLedger, vectorstore, metadata,
                   processed_urls, persisted, faults>>

Next ==
    \/ CliStart
    \/ ApiStart
    \/ \E u \in Urls : \E d \in Downloads(u), env \in PipelineEnvs :
          CliProcessVideos(u, d, env)
    \/ \E u \in Urls : \E d \in Downloads(u), env \in PipelineEnvs :
          ApiProcessVideosTask(u, d, env)
    \/ \E u \in Urls : \E d \in Downloads(u), env \in PipelineEnvs :
          ApiProcessVideosSync(u, d, env)
    \/ \E o \in Orders(updated_files(diskLedger)),
          renv \in RebuildEnvs(updated_files(diskLedger)) :
          CliRebuildVectorstore(o, renv)
    \/ \E o \in Orders(ExistingFiles), renv \in RebuildEnvs(ExistingFiles) :
          ApiRebuildTask(o, renv)
    \/ \E u \in Urls, env \in {"ok", "ledger_write_fails"} : ApiDeleteVideo(u, env)
    \/ \E v \in Videos : ApiRemoveVideo(v)
    \/ \E v \in Videos, c \in Contents : EditFile(v, c)

Spec == Init /\ [][Next]_vars

\* -------------------------------------------------------------- retrieval
\* A raw distance of the index is a number n of units: n stands for the
\* distance n / DistUnit.  A score is a fraction [num, den] with den > 0,
\* compared exactly.
MaxDist == 4      \* raw distances are 0..MaxDist units
MaxK == 3         \* a search asks for 1..MaxK results
DistUnit == 7     \* units per distance 1

Dists == 0..MaxDist

\* the default of config.rag.similarity_threshold: 0.7
similarity_threshold == [num |-> 7, den |-> 10]

\* a < b for fractions
Less(a, b) == a.num * b.den < b.num * a.den

similarity_score_raw(dist) == [num |-> dist, den |-> DistUnit]

\* line 303: similarity_score = 1 / (1 + score)
similarity_score(dist) == [num |-> DistUnit, den |-> DistUnit + dist]

below_threshold_or_equal(score) == ~Less(similarity_threshold, score)

\* line 306: similarity_score < similarity_threshold
below_threshold(score) == Less(score, similarity_threshold)

\* lines 309-322: the result built from a hit
make_result(doc, score) ==
    [content |-> doc.content, score |-> score,
     video_id |-> doc.video_id, chunk_id |-> doc.chunk_id]

\* the loop of lines 300-323 over the hits, in the order the index returned
\* them
RECURSIVE filter_hits(_)
filter_hits(hits) ==
    IF hits = <<>> THEN <<>>
    ELSE LET score == similarity_score(Head(hits).dist)
             rest == filter_hits(Tail(hits))
         IN IF below_threshold(score) THEN rest
            ELSE <<make_result(Head(hits).doc, score)>> \o rest

\* r is put behind every element whose score is not smaller than its own
RECURSIVE insert_by_score(_, _)
insert_by_score(sorted, r) ==
    IF sorted = <<>> THEN <<r>>
    ELSE IF Less(Head(sorted).score, r.score) THEN <<r>> \o sorted
    ELSE <<Head(sorted)>> \o insert_by_score(Tail(sorted), r)

RECURSIVE sort_by_score_ascending(_)
sort_by_score_ascending(results) ==
    IF results = <<>> THEN <<>>
    ELSE LET r == Head(results)
             rest == sort_by_score_ascending(Tail(results))
             smaller == SelectSeq(rest, LAMBDA x : Less(x.score, r.score))
             others == SelectSeq(rest, LAMBDA x : ~Less(x.score, r.score))
         IN smaller \o <<r>> \o others

\* line 326: results.sort(key=score, reverse=True), a stable sort
RECURSIVE sort_by_score(_)
sort_by_score(results) ==
    IF results = <<>> THEN <<>>
    ELSE insert_by_score(sort_by_score(SubSeq(results, 1, Len(results) - 1)),
                         results[Len(results)])

\* the value standing for an exception that leaves a method
Raised == <<[raised |-> TRUE]>>

search_raises(vs, hits, queryOk) ==
    IF vs = None THEN Raised
    ELSE IF ~queryOk THEN <<>>
    ELSE sort_by_score(filter_hits(hits))

\* VectorStore.search(query, k) on the index vs.  hits: what
\* similarity_search_with_score(query, k) returns; queryOk: that call (the
\* embedding of the query, the index lookup) does not raise
search(vs, hits, queryOk) ==
    IF vs = None THEN <<>>
    ELSE IF ~queryOk THEN <<>>
    ELSE sort_by_score(filter_hits(hits))

Min(a, b) == IF a < b THEN a ELSE b

\* what similarity_search_with_score(query, k) can return on the index vs:
\* min(k, size) different entries of the index, each with a raw distance,
\* the nearest first
Hits(vs, k) ==
    LET n == Min(k, Len(vs))
    IN {[i \in 1..n |-> [doc |-> vs[h[i][1]], dist |-> h[i][2]]] :
          h \in {g \in [1..n -> (DOMAIN vs) \X Dists] :
                    \A i, j \in 1..n :
                       i < j => g[i][1] # g[j][1] /\ g[i][2] <= g[j][2]}}

\* lines 86-95 of RAGSystem.search: the formatted result
format_result(result) ==
    [content |-> result.content, score |-> result.score,
     video_id |-> result.video_id, chunk_id |-> result.chunk_id]

\* RAGSystem.search(query, max_results) on the RAGSystem's own VectorStore w:
\* load(), then VectorStore.search; hits are drawn from the index loaded
rag_search(w, hits, queryOk) ==
    LET w1 == load(w)
    IN IF ~w1.ret THEN [w |-> w1, results |-> <<>>]
       ELSE LET search_results == search(w1.vs, hits, queryOk)
            IN [w |-> w1,
                results |-> [i \in 1..Len(search_results) |->
                                format_result(search_results[i])]]

dedup_key_pair(result) == <<result.video_id, result.chunk_id>>

\* line 234: the key citations are deduplicated on
dedup_key(result) == result.chunk_id

\* lines 238-247: the source built from a result
make_source(result) ==
    [content |-> result.content, score |-> result.score,
     video_id |-> result.video_id, chunk_id |-> result.chunk_id]

RECURSIVE format_sources_loop(_, _, _)
format_sources_loop(search_results, sources, seen_chunks) ==
    IF search_results = <<>> THEN sources
    ELSE LET result == Head(search_results)
         IN IF dedup_key(result) \notin seen_chunks
            THEN format_sources_loop(Tail(search_results),
                                     Append(sources, make_source(result)),
                                     seen_chunks \cup {dedup_key(result)})
            ELSE format_sources_loop(Tail(search_results), sources, seen_chunks)

format_sources_all(search_results) ==
    [i \in 1..Len(search_results) |-> make_source(search_results[i])]

\* RAGSystem._format_sources(search_results)
format_sources(search_results) == format_sources_loop(search_results, <<>>, {})

\* a fraction in lowest terms (the same number)
RECURSIVE Gcd(_, _)
Gcd(a, b) == IF b = 0 THEN a ELSE Gcd(b, a % b)

Reduce(f) == [num |-> f.num \div Gcd(f.num, f.den), den |-> f.den \div Gcd(f.num, f.den)]

running_mean_count_first(avg, n, score) ==
    [num |-> avg.num * (n + 1) * score.den + score.num * avg.den,
     den |-> avg.den * score.den * (n + 2)]

\* lines 313-316: (avg_score * chunk_count + score) / (chunk_count + 1)
running_mean(avg, n, score) ==
    Reduce([num |-> avg.num * n * score.den + score.num * avg.den,
            den |-> avg.den * score.den * (n + 1)])

\* max(a, b) of Python: a unless b is greater
max(a, b) == IF Less(a, b) THEN b ELSE a

\* lines 299-307: the entry of a video seen for the first time
first_entry(result) ==
    [video_id |-> result.video_id, max_score |-> result.score,
     avg_score |-> result.score, chunk_count |-> 1]

\* lines 309-317: the entry after one more result of its video
update_entry(entry, result) ==
    [video_id |-> entry.video_id,
     max_score |-> max(entry.max_score, result.score),
     avg_score |-> running_mean(entry.avg_score, entry.chunk_count, result.score),
     chunk_count |-> entry.chunk_count + 1]

\* the loop of lines 295-317; video_scores keeps its entries in the order
\* the videos were first seen (a dict)
RECURSIVE rollup(_, _)
rollup(search_results, video_scores) ==
    IF search_results = <<>> THEN video_scores
    ELSE LET result == Head(search_results)
             at == {i \in DOMAIN video_scores :
                       video_scores[i].video_id = result.video_id}
         IN rollup(Tail(search_results),
                   IF at = {} THEN Append(video_scores, first_entry(result))
                   ELSE LET i == CHOOSE x \in at : TRUE
                        IN [video_scores EXCEPT ![i] = update_entry(@, result)])

RECURSIVE insert_by_max_score(_, _)
insert_by_max_score(sorted, e) ==
    IF sorted = <<>> THEN <<e>>
    ELSE IF Less(Head(sorted).max_score, e.max_score) THEN <<e>> \o sorted
    ELSE <<Head(sorted)>> \o insert_by_max_score(Tail(sorted), e)

RECURSIVE sort_by_max_score_ascending(_)
sort_by_max_score_ascending(entries) ==
    IF entries = <<>> THEN <<>>
    ELSE LET e == Head(entries)
             rest == sort_by_max_score_ascending(Tail(entries))
             smaller == SelectSeq(rest, LAMBDA x : Less(x.max_score, e.max_score))
             others == SelectSeq(rest, LAMBDA x : ~Less(x.max_score, e.max_score))
         IN smaller \o <<e>> \o others

\* lines 320-324: sorted(video_scores.values(), key=max_score, reverse=True)
RECURSIVE sort_by_max_score(_)
sort_by_max_score(entries) ==
    IF entries = <<>> THEN <<>>
    ELSE insert_by_max_score(sort_by_max_score(SubSeq(entries, 1, Len(entries) - 1)),
                             entries[Len(entries)])

get_similar_videos_propagates(w, hits, limit, queryOk) ==
    LET w1 == load(w)
    IN IF ~w1.ret THEN [w |-> w1, video_scores |-> <<>>, similar_videos |-> <<>>]
       ELSE IF ~queryOk THEN [w |-> w1, video_scores |-> <<>>, similar_videos |-> Raised]
       ELSE LET search_results == search(w1.vs, hits, queryOk)
                video_scores == rollup(search_results, <<>>)
                sorted == sort_by_max_score(video_scores)
            IN [w |-> w1, video_scores |-> video_scores,
                similar_videos |-> SubSeq(sorted, 1, Min(limit, Len(sorted)))]

\* RAGSystem.get_similar_videos(query, limit) on the RAGSystem's VectorStore:
\* the entries before the truncation (video_scores) and what is returned
get_similar_videos(w, hits, limit, queryOk) ==
    LET w1 == load(w)
    IN IF ~w1.ret THEN [w |-> w1, video_scores |-> <<>>, similar_videos |-> <<>>]
       ELSE LET search_results == search(w1.vs, hits, queryOk)
                video_scores == rollup(search_results, <<>>)
                sorted == sort_by_max_score(video_scores)
            IN [w |-> w1, video_scores |-> video_scores,
                similar_videos |-> SubSeq(sorted, 1, Min(limit, Len(sorted)))]

\* ------------------------------------------------- calls that retrieve
\* One VectorStore (Unit) is filled by add_transcript and searched directly;
\* a RAGSystem on the same storage directory answers queries with its own
\* VectorStore, instance "rag", which it loads at every call.
Instances == Procs \cup {"rag"}

\* `last` after a retrieval call: k, the hits the index returned, whether the
\* index call succeeded (queryOk), whether an index was there to search
\* (loaded), and what the call computed
RetrievalLast ==
    [op |-> "", proc |-> "", k |-> 0, hits |-> <<>>, queryOk |-> TRUE,
     loaded |-> FALSE, results |-> <<>>, sources |-> <<>>,
     video_scores |-> <<>>, similar_videos |-> <<>>]

InitRetrieval ==
    /\ now = 0
    /\ files = [v \in Videos |-> NoFile]
    /\ diskIndex = None
    /\ diskMeta = EmptyMetadata
    /\ diskLedger = <<>>
    /\ vectorstore = [p \in Instances |-> None]
    /\ metadata = [p \in Instances |-> EmptyMetadata]
    /\ processed_urls = [p \in Procs |-> <<>>]
    /\ persisted = {}
    /\ faults = 0
    /\ last = NoLast

RetrievalOps == {"search", "rag_search", "answer_question", "get_similar_videos"}

\* A retrieval call changes nothing a later call reads (VectorStore.search
\* writes nothing, the RAGSystem loads its index again at every call), so the
\* calls are followed from the states that ingestion leaves.
AfterIngestion == last.op \notin RetrievalOps

\* the hits of a query: none when the index call raises
QueryHits(vs, k, queryOk) == IF queryOk THEN Hits(vs, k) ELSE {<<>>}

\* VectorStore.search(query, k) on the instance Unit
VsSearch(k, hits, queryOk) ==
    /\ last' = [RetrievalLast EXCEPT
                   !.op = "search", !.proc = Unit, !.k = k, !.hits = hits,
                   !.queryOk = queryOk, !.loaded = (vectorstore[Unit] # None),
                   !.results = search(vectorstore[Unit], hits, queryOk)]
    /\ UNCHANGED <<now, files, diskIndex, diskMeta, diskLedger, vectorstore,
                   metadata, processed_urls, persisted, faults>>

\* RAGSystem.search(query, max_results)
RagSearch(k, hits, queryOk) ==
    LET r == rag_search(World("rag"), hits, queryOk)
    IN /\ vectorstore' = [vectorstore EXCEPT !["rag"] = r.w.vs]
       /\ last' = [RetrievalLast EXCEPT
                      !.op = "rag_search", !.proc = "rag", !.k = k, !.hits = hits,
                      !.queryOk = queryOk, !.loaded = r.w.ret,
                      !.results = r.results]
       /\ UNCHANGED <<now, files, diskIndex, diskMeta, diskLedger, metadata,
                      processed_urls, persisted, faults>>

\* RAGSystem.answer_question(question, max_results): the search, then the
\* sources of the answer (none when nothing was found)
RagAnswerQuestion(k, hits, queryOk) ==
    LET r == rag_search(World("rag"), hits, queryOk)
    IN /\ vectorstore' = [vectorstore EXCEPT !["rag"] = r.w.vs]
       /\ last' = [RetrievalLast EXCEPT
                      !.op = "answer_question", !.proc = "rag", !.k = k,
                      !.hits = hits, !.queryOk = queryOk, !.loaded = r.w.ret,
                      !.results = r.results,
                      !.sources = IF r.results = <<>> THEN <<>>
                                  ELSE format_sources(r.results)]
       /\ UNCHANGED <<now, files, diskIndex, diskMeta, diskLedger, metadata,
                      processed_urls, persisted, faults>>

\* RAGSystem.get_similar_videos(query, limit)
RagGetSimilarVideos(limit, hits, queryOk) ==
    LET r == get_similar_videos(World("rag"), hits, limit, queryOk)
    IN /\ vectorstore' = [vectorstore EXCEPT !["rag"] = r.w.vs]
       /\ last' = [RetrievalLast EXCEPT
                      !.op = "get_similar_videos", !.proc = "rag", !.k = limit,
                      !.hits = hits, !.queryOk = queryOk, !.loaded = r.w.ret,
                      !.results = search(r.w.vs, hits, queryOk),
                      !.video_scores = r.video_scores,
                      !.similar_videos = r.similar_videos]
       /\ UNCHANGED <<now, files, diskIndex, diskMeta, diskLedger, metadata,
                      processed_urls, persisted, faults>>

\* the transcript_data of a download: a text, blank or not
TextData == {d \in AllData : d.kind = "text"}

NextRetrieval ==
    \/ \E d \in TextData : VsAddTranscript(d, "ok")
    \/ /\ AfterIngestion
       /\ \E k \in 1..MaxK, ok \in BOOLEAN :
             \E hits \in QueryHits(vectorstore[Unit], k, ok) : VsSearch(k, hits, ok)
    \/ /\ AfterIngestion
       /\ \E k \in 1..MaxK, ok \in BOOLEAN :
             \E hits \in QueryHits(diskIndex, k, ok) : RagSearch(k, hits, ok)
    \/ /\ AfterIngestion
       /\ \E k \in 1..MaxK, ok \in BOOLEAN :
             \E hits \in QueryHits(diskIndex, k, ok) : RagAnswerQuestion(k, hits, ok)
    \/ /\ AfterIngestion
       /\ \E k \in 1..MaxK, ok \in BOOLEAN :
             \E hits \in QueryHits(diskIndex, k, ok) : RagGetSimilarVideos(k, hits, ok)

SpecRetrieval == InitRetrieval /\ [][NextRetrieval]_vars

\* ------------------------------------------------- estimated timestamps
\* Lines 238-243 of _create_documents compute, in IEEE 754 double precision,
\*     chunk_position = i / len(chunks)
\*     estimated_timestamp = int(duration * chunk_position)
\* for a duration in whole seconds.  Both operations round to the nearest
\* double (ties to even).  The doubles are followed exactly, in integers:
\* the quotient i/n is kept as the fraction it rounds, with the direction and
\* the size of the rounding.
MaxDuration == 90     \* durations are 0..MaxDuration seconds
MaxChunks == 10       \* a text has 1..MaxChunks chunks

\* the significand of a double has 53 bits
MantissaBits == 53

RECURSIVE Pow2(_)
Pow2(k) == IF k = 0 THEN 1 ELSE 2 * Pow2(k - 1)

\* 2^e mod m
RECURSIVE Pow2Mod(_, _)
Pow2Mod(e, m) == IF e = 0 THEN 1 % m ELSE (2 * Pow2Mod(e - 1, m)) % m

\* the g with 2^g <= q < 2^(g+1), for q >= 1
RECURSIVE Log2Floor(_)
Log2Floor(q) == IF q < 2 THEN 0 ELSE 1 + Log2Floor(q \div 2)

\* the s >= 1 with 2^-s <= i/n < 2^-(s-1), for 0 < i < n
RECURSIVE BinaryExponent(_, _, _)
BinaryExponent(i, n, s) == IF i * Pow2(s) >= n THEN s ELSE BinaryExponent(i, n, s + 1)

\* line 240: the double i / n, for 0 <= i < n.  With E = MantissaBits - 1 + s
\* the significand is i * 2^E / n rounded to an integer; rem is what the
\* division leaves, so that the double is below i/n by rem / (n * 2^E) when
\* it was rounded down (dir = -1), equal to it (dir = 0) or above it (dir = 1).
chunk_position(i, n) ==
    IF i = 0 THEN [i |-> 0, n |-> n, s |-> 0, rem |-> 0, dir |-> 0]
    ELSE LET s == BinaryExponent(i, n, 1)
             E == MantissaBits - 1 + s
             rem == (i * Pow2Mod(E, n)) % n
             odd == (((i * Pow2Mod(E, 2 * n)) % (2 * n)) - rem) \div n = 1
         IN [i |-> i, n |-> n, s |-> s, rem |-> rem,
             dir |-> IF rem = 0 THEN 0
                     ELSE IF 2 * rem > n \/ (2 * rem = n /\ odd) THEN 1
                     ELSE -1]

\* line 241: int(duration * chunk_position).  The exact product of duration
\* and i/n is q + r/n.  When r > 0 the roundings, smaller than 1/n by many
\* orders of magnitude for the durations and chunk counts used here, do not
\* reach an integer.  When r = 0 the product of duration and the double is q
\* less duration * rem / (n * 2^E) if the double was rounded down; it rounds
\* to a double below q, and int() gives q - 1, when that is more than half
\* the distance from q to the double before it.
estimated_timestamp(duration, i, n) ==
    LET x == chunk_position(i, n)
        q == (duration * i) \div n
        r == (duration * i) % n
    IN IF i = 0 \/ duration = 0 THEN 0
       ELSE IF r # 0 THEN q
       ELSE IF x.dir >= 0 THEN q
       ELSE LET g == Log2Floor(q)
                lhs == IF Pow2(g) = q THEN 4 * duration * x.rem
                       ELSE 2 * duration * x.rem
            IN IF lhs > n * Pow2(x.s + g) THEN q - 1 ELSE q

\* line 244: f"{url}&t={estimated_timestamp}s", as the parts it joins
timestamp_url(url, estimated) == <<url, "&t=", estimated, "s">>

\* the documents _create_documents builds for a text of n chunks: the fields
\* chunk_id, total_chunks, timestamp and timestamp_url of their metadata
timestamped_documents(url, duration, n) ==
    [k \in 1..n |->
        LET estimated == estimated_timestamp(duration, k - 1, n)
        IN [chunk_id |-> k - 1, total_chunks |-> n,
            timestamp |-> estimated,
            timestamp_url |-> timestamp_url(url, estimated)]]

\* _create_documents is applied to a video of any duration and chunk count
\* (once: it reads nothing an earlier call leaves)
CreateDocuments(url, duration, n) ==
    /\ last.op = "init"
    /\ last' = [op |-> "create_documents", proc |-> Unit, url |-> url,
                duration |-> duration,
                documents |-> timestamped_documents(url, duration, n)]
    /\ UNCHANGED <<now, files, diskIndex, diskMeta, diskLedger, vectorstore,
                   metadata, processed_urls, persisted, faults>>

NextTimestamps ==
    \E u \in Urls, duration \in 0..MaxDuration, n \in 1..MaxChunks :
        CreateDocuments(u, duration, n)

SpecTimestamps == Init /\ [][NextTimestamps]_vars

\* ------------------------------- two instances on one storage directory
\* Two VectorStore instances ("cli", "api") constructed on the empty storage
\* directory; each ingests by add_transcript and may load the persisted
\* index.  No collaborator fails.
AddTranscriptBy(p, data) ==
    LET w == add_transcript(World(p), data, TRUE, TRUE, TRUE)
    IN /\ Commit(p, w)
       /\ last' = [NoLast EXCEPT !.op = "add_transcript", !.proc = p, !.ret = w.ret,
                                 !.inserted = w.inserted,
                                 !.known = data.video_id \in DOMAIN metadata[p].videos]
       /\ UNCHANGED <<now, files, diskLedger, processed_urls, faults>>

LoadBy(p) ==
    LET w == load(World(p))
    IN /\ Commit(p, w)
       /\ last' = [NoLast EXCEPT !.op = "load", !.proc = p, !.ret = w.ret]
       /\ UNCHANGED <<now, files, diskLedger, processed_urls, faults>>

NextConcurrentStores ==
    \/ \E p \in Procs, d \in TextData : AddTranscriptBy(p, d)
    \/ \E p \in Procs : LoadBy(p)

SpecConcurrentStores == Init /\ [][NextConcurrentStores]_vars

\* Two URLManager instances constructed on the empty ledger file; every
\* write of the file succeeds.
MarkProcessedBy(p, url, d) ==
    LET pu == mark_processed(processed_urls[p], url, d, now)
    IN /\ processed_urls' = [processed_urls EXCEPT ![p] = pu]
       /\ diskLedger' = save_processed_urls(pu, TRUE)
       /\ last' = [NoLast EXCEPT !.op = "mark_processed", !.proc = p, !.url = url]
       /\ UNCHANGED <<now, files, diskIndex, diskMeta, vectorstore, metadata, persisted,
                     faults>>

MarkVectorstoreAddedBy(p, url) ==
    LET pu == mark_vectorstore_added(processed_urls[p], url, now)
    IN /\ processed_urls' = [processed_urls EXCEPT ![p] = pu]
       /\ diskLedger' = IF is_processed(processed_urls[p], url)
                        THEN save_processed_urls(pu, TRUE) ELSE diskLedger
       /\ last' = [NoLast EXCEPT !.op = "mark_vectorstore_added", !.proc = p,
                                 !.url = url]
       /\ UNCHANGED <<now, files, diskIndex, diskMeta, vectorstore, metadata, persisted,
                     faults>>

RemoveProcessedUrlBy(p, url) ==
    LET pu == remove_processed_url(processed_urls[p], url)
    IN /\ processed_urls' = [processed_urls EXCEPT ![p] = pu]
       /\ diskLedger' = IF is_processed(processed_urls[p], url)
                        THEN save_processed_urls(pu, TRUE) ELSE diskLedger
       /\ last' = [NoLast EXCEPT !.op = "remove_processed_url", !.proc = p,
                                 !.url = url]
       /\ UNCHANGED <<now, files, diskIndex, diskMeta, vectorstore, metadata, persisted,
                     faults>>

NextConcurrentLedgers ==
    \/ \E p \in Procs, u \in Urls : MarkProcessedBy(p, u, OneChunk(u))
    \/ \E p \in Procs, u \in Urls : MarkVectorstoreAddedBy(p, u)
    \/ \E p \in Procs, u \in Urls : RemoveProcessedUrlBy(p, u)

SpecConcurrentLedgers == Init /\ [][NextConcurrentLedgers]_vars

\* ------------------------------------------- stops and restarts
\* One process at a time works on the storage directory with its VectorStore
\* (Unit).  It ingests by add_transcript; it may be stopped inside
\* add_transcript between the write of the index (line 179) and the write of
\* metadata.json (line 193); a new process constructs a new VectorStore, which
\* reads metadata.json, and calls load() if it is the API server
\* (api_server.py:141) and not if it is a run of `main.py URL...`.

\* add_transcript up to and including _save_vectorstore of line 179
add_transcript_until_saved(w0, data) ==
    LET w == [w0 EXCEPT !.ret = FALSE, !.already = FALSE, !.inserted = FALSE]
    IN IF data.kind = "corrupt" THEN w
       ELSE IF AlreadyAdded(w.md, data.video_id) THEN w
       ELSE IF IsBlank(data) THEN w
       ELSE save_vectorstore([w EXCEPT !.vs = insert(w.vs, create_documents(data)),
                                       !.inserted = TRUE], TRUE)

\* the process is down: its memory is gone and only a start can follow
Stopped == last.op = "stopped"

\* the process is stopped after line 179 of add_transcript(data)
AddTranscriptStopped(data) ==
    /\ ~Stopped
    /\ LET w == add_transcript_until_saved(World(Unit), data)
       IN /\ w.inserted
          /\ CommitDisk(w)
          /\ vectorstore' = [vectorstore EXCEPT ![Unit] = None]
          /\ metadata' = [metadata EXCEPT ![Unit] = EmptyMetadata]
          /\ last' = [NoLast EXCEPT !.op = "stopped", !.proc = Unit,
                                    !.inserted = TRUE]
    /\ UNCHANGED <<now, files, diskLedger, processed_urls, faults>>

\* add_transcript(data) runs to its end
AddTranscriptCompleted(data) == ~Stopped /\ AddTranscriptBy(Unit, data)

\* a new process: VectorStore.__init__, then load() when loads
Start(loads) ==
    /\ LET w == IF loads THEN load(NewVectorStore) ELSE NewVectorStore
       IN /\ vectorstore' = [vectorstore EXCEPT ![Unit] = w.vs]
          /\ metadata' = [metadata EXCEPT ![Unit] = w.md]
          /\ last' = [NoLast EXCEPT !.op = "start", !.proc = Unit, !.ret = w.ret]
    /\ UNCHANGED <<now, files, diskIndex, diskMeta, diskLedger, processed_urls,
                   persisted, faults>>

NextRestarts ==
    \/ \E d \in TextData : AddTranscriptCompleted(d)
    \/ \E d \in TextData : AddTranscriptStopped(d)
    \/ \E loads \in BOOLEAN : Start(loads)

SpecRestarts == Init /\ [][NextRestarts]_vars

\* ------------------------------------------------------------------ claims
ValidFiles == {v \in ExistingFiles : files[v].kind = "text" /\ files[v].text > 0}

\* C1: in every state reached by add_transcript and rebuild_from_transcripts
\* calls on one VectorStore, metadata.document_count is the sum of
\* videos[v].document_count and metadata.video_count is the number of videos.
C1_MetadataCounts ==
    /\ metadata[Unit].document_count = SumDocumentCount(metadata[Unit].videos)
    /\ metadata[Unit].video_count = Cardinality(DOMAIN metadata[Unit].videos)

\* a rebuild after earlier additions counts two videos with three documents
C1_Witness ==
    /\ last.op = "rebuild_from_transcripts" /\ last.before # {}
    /\ metadata[Unit].video_count = 2
    /\ metadata[Unit].document_count = 3

\* C2: add_transcript for a video_id that is already a key of metadata.videos
\* returns True and leaves the in-memory index, the persisted index and the
\* metadata (counts and videos, in memory and persisted) unchanged.
C2_IdempotentAdd ==
    [][(last'.op = "add_transcript" /\ last'.known)
        => /\ last'.ret
           /\ UNCHANGED <<vectorstore, diskIndex, metadata, diskMeta>>]_vars

C2_Witness ==
    /\ last.op = "add_transcript" /\ last.known /\ last.ret
    /\ vectorstore[Unit] # None

\* the documents of video v in an index
DocsOf(index, v) == {d \in Range(index) : d.video_id = v}

\* C3: between rebuilds the persisted index accumulates monotonically: every
\* document in the persisted index is still there after any later successful
\* add_transcript of an ingestion run, also one made by a newly constructed
\* VectorStore on the same storage directory.
C3_IndexAccumulates ==
    [][(last'.op = "process_videos" /\ last'.ret)
        => \A i \in DOMAIN diskIndex : diskIndex[i] \in Range(diskIndex')]_vars

\* C4: after rebuild_from_transcripts over N valid transcript files and no
\* invalid ones (every embedding call succeeding), metadata.video_count = N
\* and metadata.videos holds exactly the video_ids of the files.
C4_RebuildResetsCounts ==
    (/\ last.op = "rebuild_from_transcripts"
     /\ last.embedFailed = {}
     /\ ValidFiles = ExistingFiles)
    => /\ metadata[Unit].video_count = Cardinality(ExistingFiles)
       /\ DOMAIN metadata[Unit].videos = ExistingFiles

\* a rebuild over one valid file that drops a video indexed before
C4_Witness ==
    /\ last.op = "rebuild_from_transcripts" /\ last.embedFailed = {}
    /\ ValidFiles = ExistingFiles
    /\ ExistingFiles = {"v2"}
    /\ "v1" \in last.before

\* C5: rebuild_from_transcripts returns True iff at least one file was
\* ingested; a file that cannot be parsed or ingested is skipped and every
\* other file, also a later one, is ingested.
C5_RebuildResult ==
    last.op = "rebuild_from_transcripts"
    => /\ last.ret <=> (DOMAIN metadata[Unit].videos # {})
       /\ DOMAIN metadata[Unit].videos = ValidFiles \ last.embedFailed

\* the first file read is unparsable, the second one is ingested
C5_Witness ==
    /\ last.op = "rebuild_from_transcripts" /\ last.ret
    /\ Len(last.order) = 2
    /\ files[last.order[1]].kind = "corrupt"
    /\ last.order[2] \in DOMAIN metadata[Unit].videos

\* C6: when the transcript file of an already indexed video was modified
\* after its last recorded indexing time and rebuild mode is run (no
\* collaborator failing), the documents of that video in the index are those
\* built from the file's current content.
C6_ReindexOnChange ==
    (last.op = "rebuild_vectorstore" /\ faults = 0)
    => \A u \in last.flagged :
          LET v == diskLedger[u].video_id
          IN (v \in DOMAIN diskMeta.videos /\ v \in ValidFiles)
             => DocsOf(diskIndex, v) = Range(create_documents(FileData(v)))

\* C7: find_updated_transcripts flags the transcript file of a ledger entry
\* whose file exists iff the file's modification time is strictly greater
\* than the entry's last_modified, and the call leaves the ledger unchanged.
C7_ChangeDetection ==
    [][last'.op = "find_updated_transcripts"
        => /\ \A u \in DOMAIN processed_urls[Unit] :
                files[processed_urls[Unit][u].video_id] # NoFile
                => (u \in last'.flagged
                    <=> files[processed_urls[Unit][u].video_id].mtime
                        > processed_urls[Unit][u].last_modified)
           /\ last'.flagged \subseteq DOMAIN processed_urls[Unit]
           /\ UNCHANGED <<processed_urls, diskLedger>>]_vars

\* one entry's file is newer and flagged, another entry's file carries the
\* entry's own time stamp and is not
C7_Witness ==
    /\ last.op = "find_updated_transcripts"
    /\ \E u, x \in DOMAIN processed_urls[Unit] :
          /\ u \in last.flagged
          /\ x \notin last.flagged
          /\ files[processed_urls[Unit][x].video_id] # NoFile
          /\ files[processed_urls[Unit][x].video_id].mtime
             = processed_urls[Unit][x].last_modified

\* C8: mark_processed leaves the url Processed with vectorstore_added false,
\* mark_vectorstore_added moves an existing entry to vectorstore_added true,
\* remove_processed_url deletes the entry, and an entry with
\* vectorstore_added true comes only from mark_vectorstore_added on an
\* existing entry.
C8_LedgerStateMachine ==
    [][LET pu == processed_urls[Unit]
           pu2 == processed_urls'[Unit]
           url == last'.url
       IN /\ last'.op = "mark_processed"
             => is_processed(pu2, url) /\ ~pu2[url].vectorstore_added
          /\ (last'.op = "mark_vectorstore_added" /\ is_processed(pu, url))
             => is_processed(pu2, url) /\ pu2[url].vectorstore_added
          /\ last'.op = "remove_processed_url" => ~is_processed(pu2, url)
          /\ \A u \in DOMAIN pu2 :
                (pu2[u].vectorstore_added
                 /\ ~(is_processed(pu, u) /\ pu[u].vectorstore_added))
                => (last'.op = "mark_vectorstore_added" /\ url = u
                    /\ is_processed(pu, u))]_vars

\* an entry that went Unseen -> Processed(false) -> Processed(true)
C8_Witness ==
    /\ last.op = "mark_vectorstore_added"
    /\ is_processed(processed_urls[Unit], last.url)
    /\ processed_urls[Unit][last.url].vectorstore_added

\* C9: whenever a ledger entry has vectorstore_added = true, the documents of
\* the entry's video were inserted into and persisted in the vector index by
\* an earlier insertion.
C9_AddedOnlyAfterInsertion ==
    \A p \in Procs : \A u \in DOMAIN processed_urls[p] :
        processed_urls[p][u].vectorstore_added
        => processed_urls[p][u].video_id \in persisted

\* C10: after an ingestion entry point has processed a url whose
\* add_transcript returned True, the url's ledger entry has
\* vectorstore_added = true.
C10_LedgerRecordsIndexing ==
    (last.op = "process_videos" /\ last.ret)
    => /\ is_processed(processed_urls[last.proc], last.url)
       /\ processed_urls[last.proc][last.url].vectorstore_added

\* C11: whenever download_transcript returned transcript data for a url that
\* was not in the ledger, a ledger entry for the url exists once the url has
\* been processed, whether or not the index insertion succeeded.
C11_EntryOnFirstFetch ==
    (last.op = "process_videos" /\ last.fetched)
    => is_processed(processed_urls[last.proc], last.url)

\* C12: mark_processed, mark_vectorstore_added and update_file_timestamp each
\* set the entry's last_modified to the current time, and the last_modified
\* of an entry never decreases (the clock not going back).
C12_LastModifiedRestamped ==
    [][LET pu == processed_urls[Unit]
           pu2 == processed_urls'[Unit]
           url == last'.url
       IN /\ last'.op = "mark_processed" => pu2[url].last_modified = now
          /\ (last'.op = "mark_vectorstore_added" /\ is_processed(pu, url))
             => pu2[url].last_modified = now
          /\ last'.op = "update_file_timestamp" => pu2[url].last_modified = now
          /\ \A u \in DOMAIN pu \cap DOMAIN pu2 :
                pu2[u].last_modified >= pu[u].last_modified]_vars

\* update_file_timestamp has stamped one entry with a time later than that
\* of another entry
C12_Witness ==
    /\ last.op = "update_file_timestamp"
    /\ \E x \in DOMAIN processed_urls[Unit] :
          /\ processed_urls[Unit][last.url].last_modified = now
          /\ processed_urls[Unit][x].last_modified < now
          /\ processed_urls[Unit][x].vectorstore_added

\* the raw distance n / DistUnit gives a score of at least 0.7
AtLeastThreshold(dist) == 10 * DistUnit >= 7 * (DistUnit + dist)

\* result is the result built from hit
ResultOf(result, hit) ==
    /\ result.video_id = hit.doc.video_id
    /\ result.chunk_id = hit.doc.chunk_id
    /\ result.content = hit.doc.content

\* C13: VectorStore.search returns exactly those of the (at most k) hits of
\* the index whose score 1/(1+d) is at least similarity_threshold: none
\* below it appears, none at or above it is dropped.
C13_ThresholdFiltering ==
    (last.op = "search" /\ last.loaded /\ last.queryOk)
    => /\ \A i \in DOMAIN last.hits :
             AtLeastThreshold(last.hits[i].dist)
             <=> \E j \in DOMAIN last.results : ResultOf(last.results[j], last.hits[i])
       /\ Len(last.results)
          = Cardinality({i \in DOMAIN last.hits : AtLeastThreshold(last.hits[i].dist)})
       /\ Len(last.results) <= last.k

\* a hit whose score is exactly the threshold is kept, a farther one dropped
C13_Witness ==
    /\ last.op = "search" /\ last.loaded /\ last.queryOk
    /\ Len(last.hits) = 3 /\ Len(last.results) = 2
    /\ 10 * DistUnit = 7 * (DistUnit + last.hits[2].dist)

\* C14: the results of VectorStore.search are ordered by score, highest
\* first, and results of equal score are in the order of the index's hits.
C14_OrderedByScore ==
    (last.op = "search" /\ last.loaded /\ last.queryOk)
    => \A i, j \in DOMAIN last.results :
          i < j
          => /\ ~Less(last.results[i].score, last.results[j].score)
             /\ ~Less(last.results[j].score, last.results[i].score)
                => \E a, b \in DOMAIN last.hits :
                      /\ a < b
                      /\ ResultOf(last.results[i], last.hits[a])
                      /\ ResultOf(last.results[j], last.hits[b])

\* three results, the last two of equal score
C14_Witness ==
    /\ last.op = "search" /\ Len(last.results) = 3
    /\ Less(last.results[2].score, last.results[1].score)
    /\ last.hits[2].dist = last.hits[3].dist
    /\ ResultOf(last.results[2], last.hits[2])

C16_NoIndexNoResults ==
    [][/\ (last'.op = "search" /\ vectorstore[Unit] = None)
          => /\ last'.results = <<>>
             /\ UNCHANGED <<now, files, diskIndex, diskMeta, diskLedger, vectorstore,
                            metadata, processed_urls, persisted, faults>>
       /\ (last'.op = "rag_search" /\ diskIndex = None)
          => /\ last'.results = <<>>
             /\ UNCHANGED <<now, files, diskIndex, diskMeta, diskLedger, vectorstore,
                            metadata, processed_urls, persisted, faults>>]_vars

\* RAGSystem.search was called with no persisted index
C16_Witness ==
    /\ last.op = "rag_search" /\ ~last.loaded /\ last.queryOk
    /\ diskIndex = None /\ last.results = <<>>

\* a new VectorStore on the same directory, after its load()
FreshLoaded == load([World(Unit) EXCEPT !.vs = None])

\* the index vs can answer a query for k entries with hits
CanReturn(vs, k, hits) ==
    /\ Len(hits) = Min(k, Len(vs))
    /\ \A i \in DOMAIN hits : \E j \in DOMAIN vs : vs[j] = hits[i].doc

\* C17: after an add_transcript that inserted and returned True, a new
\* VectorStore on the same directory whose load() returns True answers every
\* search(query, k) as the inserting instance does: the same hits, hence the
\* same documents in the same order.
C17_PersistenceRoundTrip ==
    (last.op = "add_transcript" /\ last.ret /\ last.inserted /\ FreshLoaded.ret)
    => \A k \in 1..MaxK :
          \A hits \in Hits(vectorstore[Unit], k) :
             /\ CanReturn(FreshLoaded.vs, k, hits)
             /\ search(FreshLoaded.vs, hits, TRUE) = search(vectorstore[Unit], hits, TRUE)

\* the positions of search_results that hold the first result of a chunk_id
FirstOfChunk(search_results) ==
    {i \in DOMAIN search_results :
        \A j \in 1..(i - 1) : search_results[j].chunk_id # search_results[i].chunk_id}

\* C18: the sources of an answer are the first result of each chunk_id, in
\* rank order, each with the score and content of that result; there are as
\* many sources as distinct chunk_ids.
C18_SourcesFirstPerChunk ==
    (last.op = "answer_question" /\ last.results # <<>>)
    => LET first == FirstOfChunk(last.results)
       IN /\ Len(last.sources) = Cardinality(first)
          /\ Len(last.sources)
             = Cardinality({last.results[i].chunk_id : i \in DOMAIN last.results})
          /\ \A i \in first :
                LET s == last.sources[Cardinality({j \in first : j <= i})]
                IN /\ s.chunk_id = last.results[i].chunk_id
                   /\ s.video_id = last.results[i].video_id
                   /\ s.score = last.results[i].score
                   /\ s.content = last.results[i].content

\* the second of three results repeats a chunk_id and is left out
C18_Witness ==
    /\ last.op = "answer_question"
    /\ Len(last.results) = 3 /\ Len(last.sources) = 2
    /\ last.results[2].chunk_id = last.results[1].chunk_id
    /\ last.sources[2].chunk_id = last.results[3].chunk_id
    /\ last.sources[2].score = last.results[3].score

\* C19: when two results of different videos have the same chunk_id, the
\* lower-ranked one is not among the sources: the sources lack its
\* (video_id, chunk_id) pair although the results have it, and the only
\* source of that chunk_id is the first result that has it.
C19_CrossVideoCollision ==
    (last.op = "answer_question" /\ last.results # <<>>)
    => \A i, j \in DOMAIN last.results :
          (/\ i < j
           /\ last.results[i].chunk_id = last.results[j].chunk_id
           /\ last.results[i].video_id # last.results[j].video_id)
          => /\ ~\E m \in DOMAIN last.sources :
                   /\ last.sources[m].video_id = last.results[j].video_id
                   /\ last.sources[m].chunk_id = last.results[j].chunk_id
             /\ \E m \in DOMAIN last.sources :
                   /\ last.sources[m].chunk_id = last.results[i].chunk_id
                   /\ \E f \in FirstOfChunk(last.results) :
                         /\ f <= i
                         /\ last.sources[m].video_id = last.results[f].video_id

\* two results of different videos with the same chunk_id, one source
C19_Witness ==
    /\ last.op = "answer_question"
    /\ Len(last.results) = 2 /\ Len(last.sources) = 1
    /\ last.results[1].video_id # last.results[2].video_id
    /\ last.results[1].chunk_id = last.results[2].chunk_id
    /\ last.sources[1].video_id = last.results[1].video_id

\* the sum of the scores of the results at the positions S
RECURSIVE SumScores(_, _)
SumScores(results, S) ==
    IF S = {} THEN [num |-> 0, den |-> 1]
    ELSE LET i == CHOOSE x \in S : TRUE
             rest == SumScores(results, S \ {i})
         IN Reduce([num |-> results[i].score.num * rest.den + rest.num * results[i].score.den,
                    den |-> results[i].score.den * rest.den])

RECURSIVE SumCounts(_)
SumCounts(entries) ==
    IF entries = <<>> THEN 0 ELSE Head(entries).chunk_count + SumCounts(Tail(entries))

\* C20: get_similar_videos has at most one entry per video_id; an entry's
\* chunk_count is the number of results of its video, its max_score their
\* maximum and its avg_score their arithmetic mean; before the truncation to
\* limit the chunk_counts add up to the number of results.
C20_VideoRollup ==
    (last.op = "get_similar_videos" /\ last.loaded /\ last.queryOk)
    => LET r == last.results
           vsc == last.video_scores
           sim == last.similar_videos
       IN /\ \A a, b \in DOMAIN vsc : a # b => vsc[a].video_id # vsc[b].video_id
          /\ \A a, b \in DOMAIN sim : a # b => sim[a].video_id # sim[b].video_id
          /\ \A a \in DOMAIN sim : \E b \in DOMAIN vsc : vsc[b] = sim[a]
          /\ \A i \in DOMAIN r : \E a \in DOMAIN vsc : vsc[a].video_id = r[i].video_id
          /\ \A a \in DOMAIN vsc :
                LET G == {i \in DOMAIN r : r[i].video_id = vsc[a].video_id}
                    sum == SumScores(r, G)
                IN /\ vsc[a].chunk_count = Cardinality(G)
                   /\ \E i \in G : vsc[a].max_score = r[i].score
                   /\ \A i \in G : ~Less(vsc[a].max_score, r[i].score)
                   /\ vsc[a].avg_score.num * sum.den * Cardinality(G)
                      = sum.num * vsc[a].avg_score.den
          /\ SumCounts(vsc) = Len(r)

\* a video with two results of different scores next to another video
C20_Witness ==
    /\ last.op = "get_similar_videos" /\ last.loaded
    /\ Len(last.results) = 3 /\ Len(last.video_scores) = 2
    /\ \E a \in DOMAIN last.video_scores :
          /\ last.video_scores[a].chunk_count = 2
          /\ Less(last.video_scores[a].avg_score, last.video_scores[a].max_score)

\* C21: get_similar_videos returns its videos by max_score, highest first,
\* and at most limit of them: as many as there are grouped videos, up to
\* limit, none of them with a smaller max_score than a video left out.
C21_SimilarVideosRanked ==
    (last.op = "get_similar_videos" /\ last.loaded /\ last.queryOk)
    => LET vsc == last.video_scores
           sim == last.similar_videos
       IN /\ \A i, j \in DOMAIN sim :
                i < j => ~Less(sim[i].max_score, sim[j].max_score)
          /\ Len(sim) <= last.k
          /\ Len(sim) = Min(last.k, Len(vsc))
          /\ \A i \in DOMAIN sim : \E a \in DOMAIN vsc : vsc[a] = sim[i]
          /\ \A a \in DOMAIN vsc :
                (\A i \in DOMAIN sim : sim[i].video_id # vsc[a].video_id)
                => \A i \in DOMAIN sim : ~Less(sim[i].max_score, vsc[a].max_score)

\* two videos are returned, the second with the smaller max_score
C21_Witness ==
    /\ last.op = "get_similar_videos" /\ last.loaded
    /\ Len(last.similar_videos) = 2
    /\ Less(last.similar_videos[2].max_score, last.similar_videos[1].max_score)
    /\ last.similar_videos[1].chunk_count = 2

\* C22: when the write of the index or of metadata.json fails during
\* add_transcript, add_transcript returns False.
C22_PersistenceFailureReported ==
    (last.op = "add_transcript" /\ ~last.writeOk) => ~last.ret

C24_BlankSkipped ==
    [][/\ last'.op = "add_transcript"
          => \A d \in AllData, env \in Envs :
                (d.kind = "text" /\ d.text = 0 /\ VsAddTranscript(d, env))
                => /\ UNCHANGED <<vectorstore, diskIndex, metadata, diskMeta>>
                   /\ last'.ret \in BOOLEAN
       /\ (/\ last'.op = "rebuild_from_transcripts"
           /\ last'.embedFailed = {})
          => \A v \in Range(last'.order) :
                (files[v].kind = "text" /\ files[v].text > 0)
                => v \in DOMAIN metadata'[Unit].videos]_vars

\* a rebuild read a blank file first and ingested the file after it
C24_Witness ==
    /\ last.op = "rebuild_from_transcripts" /\ last.ret
    /\ Len(last.order) = 2
    /\ files[last.order[1]].kind = "text" /\ files[last.order[1]].text = 0
    /\ files[last.order[2]].text > 0
    /\ DOMAIN metadata[Unit].videos = {last.order[2]}
    /\ {d.video_id : d \in Range(diskIndex)} = {last.order[2]}

\* C25: a completed add_transcript or rebuild_from_transcripts during which
\* no write failed, begun with metadata.json equal to the metadata in
\* memory, ends with metadata.json equal to the metadata in memory.
C25_MetadataPersisted ==
    [][(/\ last'.op \in {"add_transcript", "rebuild_from_transcripts"}
        /\ last'.writeOk
        /\ diskMeta = metadata[Unit])
       => diskMeta' = metadata'[Unit]]_vars

\* the URLManager methods that change the ledger
LedgerMutators ==
    {"mark_processed", "mark_vectorstore_added", "remove_processed_url",
     "update_file_timestamp"}

\* C26: after every mark_processed, mark_vectorstore_added,
\* remove_processed_url or update_file_timestamp that changed the ledger in
\* memory, with the write succeeding, the ledger file holds exactly the
\* ledger in memory: the mapping a URLManager constructed afterwards loads.
C26_LedgerRewritten ==
    [][(/\ last'.op \in LedgerMutators
        /\ processed_urls'[Unit] # processed_urls[Unit])
       => diskLedger' = processed_urls'[Unit]]_vars

\* the flag of one of two entries was set and is in the ledger file
C26_Witness ==
    /\ last.op = "mark_vectorstore_added"
    /\ Cardinality(DOMAIN diskLedger) = 2
    /\ last.url \in DOMAIN diskLedger
    /\ diskLedger[last.url].vectorstore_added
    /\ \E u \in DOMAIN diskLedger : ~diskLedger[u].vectorstore_added
    /\ diskLedger = processed_urls[Unit]

\* the videos that have a document in the index idx
VideosIn(idx) == {d.video_id : d \in Range(idx)}

\* C27: nothing guards the load-mutate-persist sequence of add_transcript:
\* an add_transcript that inserted leaves as the persisted index the index of
\* its own instance and as metadata.json the metadata of its own instance,
\* whatever another instance persisted in between.  (The state in which both
\* instances returned True and storage holds one video is C27_Witness.)
C27_LastWriterWins ==
    (last.op = "add_transcript" /\ last.inserted)
    => /\ last.ret
       /\ diskIndex = vectorstore[last.proc]
       /\ diskMeta = metadata[last.proc]

\* "cli" ingested v1 and "api" ingested v2, both returned True, v1 was once
\* in the persisted index; the persisted index and metadata hold v2 only
C27_Witness ==
    /\ last.op = "add_transcript" /\ last.proc = "api" /\ last.ret /\ last.inserted
    /\ "v1" \in DOMAIN metadata["cli"].videos
    /\ "v2" \in DOMAIN metadata["api"].videos
    /\ persisted = {"v1", "v2"}
    /\ VideosIn(diskIndex) = {"v2"}
    /\ DOMAIN diskMeta.videos = {"v2"}

\* C28: a URLManager writes the ledger file from its own copy: after a
\* mutation by instance p the file is p's ledger, whatever another instance
\* wrote in between.  When p's copy is the file's content, as it always is
\* with a single instance, the mutation loses no entry of the file except
\* the one remove_processed_url removes.  (The state in which two instances
\* marked different urls and the file holds one is C28_Witness.)
C28_LedgerSingleWriter ==
    [][\A p \in Procs :
          (last'.proc = p /\ processed_urls'[p] # processed_urls[p])
          => /\ diskLedger' = processed_urls'[p]
             /\ processed_urls[p] = diskLedger
                => \A u \in DOMAIN diskLedger :
                      \/ u \in DOMAIN diskLedger'
                      \/ last'.op = "remove_processed_url" /\ last'.url = u]_vars

\* "cli" marked u1, "api" marked u2 without ever holding u1; the file holds
\* u2 only
C28_Witness ==
    /\ last.op = "mark_processed" /\ last.proc = "api" /\ last.url = "u2"
    /\ DOMAIN processed_urls["cli"] = {"u1"}
    /\ DOMAIN processed_urls["api"] = {"u2"}
    /\ DOMAIN diskLedger = {"u2"}

\* C29: a document of a video of duration D with n chunks has
\* estimated_timestamp = floor(D * chunk_id / n) and as timestamp_url the
\* url followed by "&t=", the timestamp and "s"; so the first chunk has
\* timestamp 0, timestamps do not decrease with chunk_id and each is below D
\* when D > 0.
C29_EstimatedTimestamp ==
    last.op = "create_documents"
    => LET docs == last.documents
           D == last.duration
           n == Len(docs)
       IN /\ \A k \in DOMAIN docs :
                /\ docs[k].timestamp = (D * docs[k].chunk_id) \div n
                /\ docs[k].timestamp_url = <<last.url, "&t=", docs[k].timestamp, "s">>
                /\ D > 0 => docs[k].timestamp < D
          /\ docs[1].timestamp = 0
          /\ \A j, k \in DOMAIN docs : j < k => docs[j].timestamp <= docs[k].timestamp

\* the documents of video v in an index, in the order of the index
DocSeqOf(index, v) == SelectSeq(index, LAMBDA d : d.video_id = v)

\* C30: the documents of a video in the index have chunk_id 0, 1, ..., n-1
\* in that order, each with total_chunks = n, and n is the document_count
\* the metadata records for the video.
C30_ChunkOrdinals ==
    \A v \in DOMAIN metadata[Unit].videos :
       LET docs == DocSeqOf(vectorstore[Unit], v)
           n == Len(docs)
       IN /\ n > 0
          /\ \A k \in 1..n : docs[k].chunk_id = k - 1 /\ docs[k].total_chunks = n
          /\ metadata[Unit].videos[v].document_count = n

\* two videos of two chunks each: chunk_id 0 and 1 occur once per video and
\* twice in the index
C30_Witness ==
    /\ last.op = "add_transcript" /\ last.inserted
    /\ DOMAIN metadata[Unit].videos = {"v1", "v2"}
    /\ Len(DocSeqOf(vectorstore[Unit], "v1")) = 2
    /\ Len(DocSeqOf(vectorstore[Unit], "v2")) = 2
    /\ \A c \in {0, 1} :
          Cardinality({k \in DOMAIN vectorstore[Unit] :
                          vectorstore[Unit][k].chunk_id = c}) = 2

\* C32: when the url is already a key of the ledger of the entry point's
\* URLManager, process_videos, process_videos_task and process_videos_sync
\* download no transcript and insert nothing for it: the transcript files,
\* the ledger (in memory and its file), the index (in memory and persisted)
\* and the Index Metadata (in memory and persisted) are unchanged.
C32_LedgerGatesReentry ==
    [][(/\ last'.op = "process_videos"
        /\ last'.url \in DOMAIN processed_urls[last'.proc])
       => /\ ~last'.fetched
          /\ ~last'.ret
          /\ UNCHANGED <<files, diskIndex, diskMeta, diskLedger, vectorstore,
                         metadata, processed_urls, persisted, faults>>]_vars

\* the server was given a url of its ledger again: nothing was fetched
C32_Witness ==
    /\ last.op = "process_videos" /\ last.proc = "api" /\ ~last.fetched
    /\ last.url \in DOMAIN processed_urls["api"]
    /\ processed_urls["api"][last.url].vectorstore_added
    /\ processed_urls["api"][last.url].video_id \in DOMAIN metadata["api"].videos

\* C33: the ledger is keyed by url and its entries are independent: when a
\* url is ingested successfully whose video is in the Index Metadata and has
\* an entry under another url, the ledger then holds both entries with the
\* same video_id, the older one as it was, and the Index Metadata (in memory
\* and metadata.json) and the index are unchanged: one entry for the video,
\* with the document_count it had.
C33_KeyedByUrl ==
    [][\A p \in Procs :
        LET url == last'.url
            v == extract_video_id(url)
        IN (/\ last'.op = "process_videos" /\ last'.proc = p /\ last'.ret
            /\ v \in DOMAIN metadata[p].videos
            /\ \E u \in DOMAIN processed_urls[p] :
                  u # url /\ processed_urls[p][u].video_id = v)
           => /\ url \in DOMAIN processed_urls'[p]
              /\ processed_urls'[p][url].video_id = v
              /\ \A u \in DOMAIN processed_urls[p] :
                    /\ u \in DOMAIN processed_urls'[p]
                    /\ processed_urls'[p][u] = processed_urls[p][u]
              /\ Cardinality({u \in DOMAIN processed_urls'[p] :
                                 processed_urls'[p][u].video_id = v}) >= 2
              /\ metadata'[p] = metadata[p]
              /\ v \in DOMAIN metadata'[p].videos
              /\ UNCHANGED <<diskMeta, diskIndex, vectorstore>>]_vars

\* v1 was ingested as u1 and then as u1b: two entries, one video of one
\* document
C33_Witness ==
    /\ last.op = "process_videos" /\ last.ret /\ last.url = "u1b"
    /\ {"u1", "u1b"} \subseteq DOMAIN processed_urls[last.proc]
    /\ processed_urls[last.proc]["u1"].video_id = "v1"
    /\ processed_urls[last.proc]["u1b"].video_id = "v1"
    /\ processed_urls[last.proc]["u1"].last_modified
       < processed_urls[last.proc]["u1b"].last_modified
    /\ DOMAIN metadata[last.proc].videos = {"v1"}
    /\ metadata[last.proc].document_count = 1
    /\ Len(diskIndex) = 1

\* C34: after any completed sequence of ingestions, rebuilds and process
\* restarts in which no collaborator failed, the video_ids that have
\* documents in the persisted index are the keys of videos in metadata.json,
\* and the persisted index has document_count documents.
C34_IndexMetadataAgree ==
    faults = 0
    => /\ VideosIn(diskIndex) = DOMAIN diskMeta.videos
       /\ Len(diskIndex) = diskMeta.document_count

\* C35: after any sequence of add_transcript calls, stops between the write
\* of the index and the write of the metadata, and restarts, the persisted
\* index holds at most one document for each (video_id, chunk_id).
C35_NoDocumentTwice ==
    \A i, j \in DOMAIN diskIndex :
       (/\ diskIndex[i].video_id = diskIndex[j].video_id
        /\ diskIndex[i].chunk_id = diskIndex[j].chunk_id)
       => i = j

\* C36: after rebuild mode has processed the one file that
\* find_updated_transcripts flagged, update_from_file returning True and no
\* collaborator failing, a following find_updated_transcripts (the file not
\* modified since) does not flag that file any more.
C36_FlaggedFileCleared ==
    (/\ last.op = "rebuild_vectorstore" /\ last.ret /\ faults = 0
     /\ Cardinality({diskLedger[u].video_id : u \in last.flagged}) = 1)
    => last.flagged \cap find_updated_transcripts(diskLedger) = {}

\* C37 as claimed: immediately after a url was ingested successfully
\* (download, add_transcript, mark_processed), find_updated_transcripts does
\* not flag the transcript file of that url's video.
C37_FreshFileNotFlagged ==
    (last.op = "process_videos" /\ last.ret /\ last.fetched)
    => extract_video_id(last.url) \notin updated_files(processed_urls[last.proc])

\* C37 as amended: immediately after a url was ingested successfully,
\* find_updated_transcripts does not flag the file on account of that url's
\* entry; it flags the file only on account of another entry of the same
\* video, one whose last_modified is older than the file just written.
C37_FreshEntryNotFlagged ==
    (last.op = "process_videos" /\ last.ret /\ last.fetched)
    => LET pu == processed_urls[last.proc]
           v == extract_video_id(last.url)
       IN /\ last.url \in DOMAIN pu
          /\ files[v] # NoFile
          /\ files[v].mtime <= pu[last.url].last_modified
          /\ last.url \notin find_updated_transcripts(pu)
          /\ \A u \in find_updated_transcripts(pu) :
                pu[u].video_id = v
                => u # last.url /\ pu[u].last_modified < files[v].mtime

\* v1 was ingested as u1 and again as u1b: the file written by the second
\* download is flagged through the entry of u1, not through that of u1b
C37_Witness ==
    /\ last.op = "process_videos" /\ last.ret /\ last.fetched
    /\ last.url = "u1b"
    /\ find_updated_transcripts(processed_urls[last.proc]) = {"u1"}
    /\ files["v1"].mtime = processed_urls[last.proc]["u1b"].last_modified

\* the documents the last insertion put at the end of the index vs
NewDocuments(vs) ==
    SubSeq(vs, Len(vs) - vs[Len(vs)].total_chunks + 1, Len(vs))

\* C38: when add_transcript on the ingestion VectorStore has inserted,
\* persisted and returned True, the RAGSystem.search that follows, made on
\* another VectorStore instance that loads the persisted index at the call,
\* searches an index that holds the documents just added (and every other
\* document of the ingestion index), and its hits are drawn from that index.
C38_ReadYourWrites ==
    [][(/\ last.op = "add_transcript" /\ last.ret /\ last.inserted
        /\ last'.op = "rag_search")
       => /\ last'.loaded
          /\ vectorstore'["rag"] = diskIndex
          /\ \A i \in DOMAIN NewDocuments(vectorstore[Unit]) :
                NewDocuments(vectorstore[Unit])[i] \in Range(vectorstore'["rag"])
          /\ Range(vectorstore[Unit]) \subseteq Range(vectorstore'["rag"])
          /\ last'.queryOk => CanReturn(vectorstore[Unit], last'.k, last'.hits)]_vars

\* the search after the second video was added returns one of its documents
C38_Witness ==
    /\ last.op = "rag_search" /\ last.loaded /\ last.queryOk
    /\ VideosIn(vectorstore["rag"]) = {"v1", "v2"}
    /\ vectorstore["rag"] = vectorstore[Unit]
    /\ \E i \in DOMAIN last.results :
          last.results[i].video_id = vectorstore[Unit][Len(vectorstore[Unit])].video_id

\* C39: delete_video removes one ledger entry of the video and the video's
\* transcript file and leaves the index and the Index Metadata, in memory and
\* persisted, unchanged; submitting the deleted url again, the video still
\* being in metadata.videos, changes neither the index nor the metadata;
\* remove_video returns False and changes nothing.
C39_DeleteKeepsIndex ==
    [][/\ last'.op = "delete_video"
          => LET pu == processed_urls["api"]
                 pu2 == processed_urls'["api"]
                 u == last'.url
             IN /\ u \in DOMAIN pu
                /\ DOMAIN pu2 = DOMAIN pu \ {u}
                /\ \A x \in DOMAIN pu2 : pu2[x] = pu[x]
                /\ files'[pu[u].video_id] = NoFile
                /\ UNCHANGED <<diskIndex, diskMeta, vectorstore, metadata, persisted>>
       /\ (/\ last.op = "delete_video"
           /\ last'.op = "process_videos" /\ last'.proc = "api"
           /\ last'.url = last.url
           /\ extract_video_id(last.url) \in DOMAIN metadata["api"].videos)
          => UNCHANGED <<diskIndex, diskMeta, vectorstore, metadata, persisted>>
       /\ last'.op = "remove_video"
          => /\ ~last'.ret
             /\ UNCHANGED <<files, diskIndex, diskMeta, diskLedger, vectorstore,
                            metadata, processed_urls, persisted, faults>>]_vars

\* one of the two urls of an indexed video was deleted: the other entry is
\* still in the ledger, the file is gone, the video is in the index and in
\* the metadata
C39_Witness ==
    /\ last.op = "delete_video" /\ last.url = "u1"
    /\ DOMAIN processed_urls["api"] = {"u1b"}
    /\ files["v1"] = NoFile
    /\ "v1" \in DOMAIN metadata["api"].videos
    /\ "v1" \in VideosIn(vectorstore["api"])
    /\ "v1" \in VideosIn(diskIndex)
    /\ "v1" \in DOMAIN diskMeta.videos

=============================================================================
